---- MODULE Spec2Model ----
(***************************************************************************)
(* Face-detection pipeline of the interview backend                        *)
(* (voice assistant/backend/app/api/face_detection.py), with the voice     *)
(* analysis state and the interview evaluation of app/services.            *)
(*                                                                         *)
(* Units: time is counted in tenths of a second, confidences and attention *)
(* scores in hundredths, normalised landmark coordinates in hundredths,    *)
(* pixel distances in whole pixels, eye aspect ratios in thousandths.      *)
(***************************************************************************)
EXTENDS Integers, Sequences, FiniteSets, TLC

VARIABLES det, now, voice, pc, cid, connections, msg, received, pending, outbox,
          delivered, last, hist, track, probe, evaluation

vars == <<det, now, voice, pc, cid, connections, msg, received, pending, outbox,
          delivered, last, hist, track, probe, evaluation>>

(***************************************************************************)
(* Bounds of the model                                                     *)
(***************************************************************************)
\* longest run of frames with a face fed to one detector
MaxRun == 10
\* longest run of frames without a face fed to one detector
MaxAbsent == 6
\* last clock value of the timed specification, in tenths after T0
MaxTime == 51
\* longest run counted by the looking-away counters
MaxAway == 4
\* messages delivered to the server over all sessions
MaxMsgs == 3
\* longest looking-away run counted in the looking-away specification
MaxLongRun == 32
\* longest run of frames with a face in the movement specification
MaxMoveRun == 4
\* longest run of frames with a face, and of frames without one, in the
\* scenario specification
MaxScenarioRun == 2
\* frames processed in the fusion specification
MaxFusionCalls == 2
\* clock steps of 0.1 s in the duration specification
MaxDurationTime == 2
\* contours found by each pass of the device heuristic
MaxContours == 2
\* frames processed in the record specification
MaxRecordCalls == 2
\* questions and answers submitted to an interview evaluation, and feedback
\* items in the model's reply
MaxQuestions == 6

(***************************************************************************)
(* Program constants                                                       *)
(***************************************************************************)
flip_up == 2
flip_down == 5
face_movement_threshold == 50
\* time_since_last > 5.0
NoFaceSeconds == 50
\* looking_away_frames > 30
LookingAwayFrames == 30
\* eyes_away_frames > 20
EyesAwayFrames == 20
\* now - head_pose_change_time > 2.0
HeadPoseChangeSeconds == 20
\* lines 125-126: origins closer than this in x and in y are duplicates (pixels)
DuplicateDistance == 50
\* confidence = 0.6 on the OpenCV fallback
FallbackConfidence == 60

\* value of time.time() when the module is imported
T0 == 1
\* Python None, and the absence of a dynamically created attribute
None == -1
NoAttr == -2

Truthy(x) == x # None /\ x # 0
HasAttr(x) == x # NoAttr

Sessions == {"s1", "s2"}
ClientIds == {"a", "b"}

(***************************************************************************)
(* EnhancedFaceDetector.__init__ : the mutable fields of the detector      *)
(***************************************************************************)
NewDetector(t) ==
  [ last_activity_time |-> t,
    last_face_position |-> <<None, None>>,
    screen_switch_detected |-> FALSE,
    screen_switch_start_time |-> None,
    with_face_frames |-> 0,
    no_face_frames |-> 0,
    state_face_detected |-> FALSE,
    looking_away_frames |-> NoAttr,
    eyes_away_frames |-> NoAttr,
    last_head_pose |-> "noattr",
    head_pose_change_time |-> NoAttr ]

(***************************************************************************)
(* Reasons appended by detect_screen_sharing                               *)
(***************************************************************************)
ReasonNoFace == "No face detected for extended period (likely tab switching)"
ReasonMovement == "Sudden large face movement (possible tab switching)"
ReasonLookingAway == "Sustained looking away (possible tab switching)"
ReasonEyesAway == "Sustained eye movement away (possible tab switching)"
ReasonHeadPose == "Sustained head pose change (possible tab switching)"

\* _get_face_center: the nose tip in normalised coordinates, [0, 0] when the
\* landmark list is short
GetFaceCenter(lm) == IF lm.mesh = "short" THEN <<0, 0>> ELSE lm.center

\* np.linalg.norm(p - q) > limit, compared on squares (coordinates in 1/100)
MovedMoreThan(p, q, limit) ==
  (p[1] - q[1]) * (p[1] - q[1]) + (p[2] - q[2]) * (p[2] - q[2])
     > (limit * 100) * (limit * 100)

Cond(b, s) == IF b THEN <<s>> ELSE <<>>

NoFaceTriggerInclusive(time_since_last, face_detected) ==
  time_since_last >= NoFaceSeconds /\ ~face_detected

\* trigger 1, line 220
NoFaceTrigger(time_since_last, face_detected) ==
  time_since_last > NoFaceSeconds /\ ~face_detected

LookingAwayTriggerInclusive(looking_away_frames) ==
  looking_away_frames >= LookingAwayFrames

\* trigger 3, line 244
LookingAwayTrigger(looking_away_frames) ==
  looking_away_frames > LookingAwayFrames

EyesAwayTriggerInclusive(eyes_away_frames) ==
  eyes_away_frames >= EyesAwayFrames

\* trigger 4, line 261
EyesAwayTrigger(eyes_away_frames) ==
  eyes_away_frames > EyesAwayFrames

FirstReasonOnly(trig1, trig2, trig3, trig4, trig5) ==
  IF trig1 THEN <<ReasonNoFace>>
  ELSE IF trig2 THEN <<ReasonMovement>>
  ELSE IF trig3 THEN <<ReasonLookingAway>>
  ELSE IF trig4 THEN <<ReasonEyesAway>>
  ELSE Cond(trig5, ReasonHeadPose)

\* lines 217, 222, 233, 246, 263, 279: each trigger appends its reason
SwitchingReason(trig1, trig2, trig3, trig4, trig5) ==
  Cond(trig1, ReasonNoFace) \o Cond(trig2, ReasonMovement)
    \o Cond(trig3, ReasonLookingAway)
    \o Cond(trig4, ReasonEyesAway)
    \o Cond(trig5, ReasonHeadPose)

SwitchStartKept(screen_switching, was, start, t) ==
  IF screen_switching /\ ~was THEN t ELSE start

\* lines 286-291: screen_switch_start_time on the rising and the falling edge
SwitchStart(screen_switching, was, start, t) ==
  IF screen_switching /\ ~was THEN t
  ELSE IF ~screen_switching /\ was THEN None
  ELSE start

LookingAwayKnownPose(head_pose, face_detected) ==
  ~head_pose.looking_at_screen /\ face_detected /\ head_pose.head_pose # "unknown"

\* line 237: the condition counted by trigger 3
LookingAway(head_pose, face_detected) ==
  ~head_pose.looking_at_screen /\ face_detected

RunLengthKept(frames, holds) ==
  IF holds THEN (IF HasAttr(frames) THEN frames ELSE 0) + 1 ELSE frames

\* lines 239-251 and 256-267: the counter attribute is created at 0 and
\* incremented while the condition holds, and set to 0 otherwise if it exists
RunLength(frames, holds) ==
  IF holds THEN (IF HasAttr(frames) THEN frames ELSE 0) + 1
  ELSE IF HasAttr(frames) THEN 0 ELSE NoAttr

(***************************************************************************)
(* detect_screen_sharing(analysis, face_landmarks) at clock value t.       *)
(* a  : the analysis record built so far (face_detected, head_pose,        *)
(*      eye_tracking)                                                      *)
(* lm : the landmarks argument, [mesh, center]; mesh = "none" is None      *)
(* Returns the detector after the call and the screen_sharing record.      *)
(***************************************************************************)
DetectScreenSharing(d, a, lm, t) ==
  LET time_since_last == t - d.last_activity_time
      face == a.face_detected
      looking == a.head_pose.looking_at_screen
      pose == a.head_pose.head_pose
      \* line 210: activity refresh
      refresh == face /\ looking
      \* 1. line 220
      trig1 == NoFaceTrigger(time_since_last, face)
      \* 2. line 225
      tracked == lm.mesh # "none" /\ face
      trig2 == /\ tracked
               /\ d.last_face_position # <<None, None>>
               /\ MovedMoreThan(GetFaceCenter(lm), d.last_face_position,
                                face_movement_threshold * 2)
      \* 3. line 237
      away == LookingAway(a.head_pose, face)
      laf == RunLength(d.looking_away_frames, away)
      trig3 == away /\ LookingAwayTrigger(laf)
      \* 4. line 254
      eaway == a.eye_tracking.eye_tracking = "looking_away" /\ face
      eaf == RunLength(d.eyes_away_frames, eaway)
      trig4 == eaway /\ EyesAwayTrigger(eaf)
      \* 5. line 270: entered only when last_head_pose already exists
      posed == d.last_head_pose # "noattr" /\ pose # ""
      changed == posed /\ d.last_head_pose # pose
      trig5 == /\ changed
               /\ HasAttr(d.head_pose_change_time)
               /\ t - d.head_pose_change_time > HeadPoseChangeSeconds
      screen_switching == trig1 \/ trig2 \/ trig3 \/ trig4 \/ trig5
      \* line 286: rising and falling edge, after the refresh of line 212
      was == IF refresh THEN FALSE ELSE d.screen_switch_detected
      start == IF refresh THEN None ELSE d.screen_switch_start_time
      detected == IF screen_switching /\ ~was THEN TRUE
                  ELSE IF ~screen_switching /\ was THEN FALSE
                  ELSE was
      start_time == SwitchStart(screen_switching, was, start, t)
  IN [ d |-> [ last_activity_time |-> IF refresh THEN t ELSE d.last_activity_time,
               last_face_position |-> IF tracked THEN GetFaceCenter(lm)
                                                 ELSE d.last_face_position,
               screen_switch_detected |-> detected,
               screen_switch_start_time |-> start_time,
               with_face_frames |-> d.with_face_frames,
               no_face_frames |-> d.no_face_frames,
               state_face_detected |-> d.state_face_detected,
               looking_away_frames |-> laf,
               eyes_away_frames |-> eaf,
               last_head_pose |-> IF posed THEN pose ELSE d.last_head_pose,
               head_pose_change_time |->
                  IF ~posed THEN d.head_pose_change_time
                  ELSE IF changed
                    THEN (IF HasAttr(d.head_pose_change_time)
                            THEN d.head_pose_change_time ELSE t)
                    ELSE NoAttr ],
       out |-> [ screen_sharing_detected |-> screen_switching,
                 time_since_last_activity |-> time_since_last,
                 switching_reason |-> SwitchingReason(trig1, trig2, trig3, trig4, trig5),
                 switch_duration |-> IF Truthy(start_time) THEN t - start_time
                                                           ELSE 0 ] ]

(***************************************************************************)
(* A frame is described by what the external detectors and the geometry    *)
(* analysers report on it:                                                 *)
(*   primary  : "raise", "none" or "faces" (MediaPipe face detection)      *)
(*   scores   : the native scores of the primary candidates, in the order  *)
(*              the detector lists them                                    *)
(*   fallback : "raise", "none" or "faces" (Haar cascade)                  *)
(*   mesh     : "none", "short" or "full" (face-mesh landmarks)            *)
(*   center   : nose tip of the landmarks (landmark 4)                     *)
(*   head     : what the head-pose geometry yields on a full landmark set  *)
(*   left_points, right_points : the eye landmarks 33, 7, 163, 145 and     *)
(*              263, 386, 362, 374                                         *)
(*   contours, dark_contours : the bounding-box origins, in pixels, of the *)
(*              phone-like contours of the edge pass and of the dark pass  *)
(*   mp_faces, ocv_faces, objects : the activity heuristics                *)
(***************************************************************************)
\* frame.shape of the frames the client sends, in pixels
FrameWidth == 600
FrameHeight == 400

HeadUnknown == [looking_at_screen |-> FALSE, head_pose |-> "unknown", gaze_distance |-> 0]
EyeUnknown == [eye_state |-> "unknown", eye_tracking |-> "unknown",
               eye_aspect_ratio |-> 0, screen_distance |-> 0]

AnalyzeHeadPoseAnyMesh(f, landmarks) == f.head

\* analyze_head_pose: unknown sentinel without a full landmark set
AnalyzeHeadPose(f, landmarks) ==
  IF landmarks.mesh # "full" THEN HeadUnknown ELSE f.head

\* a landmark in pixels: [x * w, y * h]
Pixel(pt) == <<(pt[1] * FrameWidth) \div 100, (pt[2] * FrameHeight) \div 100>>

Pixels(pts) == [i \in DOMAIN pts |-> Pixel(pts[i])]

DistSq(p, q) ==
  (p[1] - q[1]) * (p[1] - q[1]) + (p[2] - q[2]) * (p[2] - q[2])

\* the only element of a one-element set
The(S) == CHOOSE x \in S : TRUE

\* the square root of n rounded down, lo * lo <= n < hi * hi
RECURSIVE SqrtBetween(_, _, _)
SqrtBetween(n, lo, hi) ==
  IF hi - lo <= 1 THEN lo
  ELSE The({ IF mid * mid <= n THEN SqrtBetween(n, mid, hi)
                               ELSE SqrtBetween(n, lo, mid) :
             mid \in {(lo + hi) \div 2} })

\* dist.euclidean in whole pixels
Euclidean(p, q) ==
  The({ SqrtBetween(n, 0, 2 * (FrameWidth + FrameHeight)) : n \in {DistSq(p, q)} })

\* ear(pts), lines 423-430, in thousandths
Ear(pts) ==
  LET A == Euclidean(pts[2], pts[4])
      B == Euclidean(pts[1], pts[3])
      C == Euclidean(pts[1], pts[3])
  IN IF C > 0 THEN (1000 * (A + B)) \div (2 * C) ELSE 300

\* lines 436-441
EyeState(avg_ear) ==
  IF avg_ear < 200 THEN "closed" ELSE IF avg_ear < 250 THEN "blinking" ELSE "open"

\* the sum of four points
Sum4(pts) == <<pts[1][1] + pts[2][1] + pts[3][1] + pts[4][1],
               pts[1][2] + pts[2][2] + pts[3][2] + pts[4][2]>>

\* lines 432-456 on the eye contours in pixels; the eye centre is compared on
\* sums (eight times the mean)
EyeTracking(left_points, right_points) ==
  LET avg_ear == (Ear(left_points) + Ear(right_points)) \div 2
      sl == Sum4(left_points)
      sr == Sum4(right_points)
      eye_center8 == <<sl[1] + sr[1], sl[2] + sr[2]>>
      screen_center8 == <<4 * FrameWidth, 4 * FrameHeight>>
      limit8 == (8 * 3 * FrameWidth) \div 10
      looking_at_screen == DistSq(eye_center8, screen_center8) < limit8 * limit8
  IN [ eye_state |-> EyeState(avg_ear),
       eye_tracking |-> IF looking_at_screen THEN "looking_at_screen"
                                             ELSE "looking_away",
       eye_aspect_ratio |-> avg_ear,
       screen_distance |->
          The({ SqrtBetween(n, 0, 16 * (FrameWidth + FrameHeight)) \div 8 :
                n \in {DistSq(eye_center8, screen_center8)} }) ]

\* analyze_eye_tracking: unknown sentinel without a full landmark set,
\* lines 394-401, else the landmarks in pixels, lines 403-421
AnalyzeEyeTracking(f, landmarks) ==
  IF landmarks.mesh # "full" THEN EyeUnknown
  ELSE The({ EyeTracking(l, r) : l \in {Pixels(f.left_points)},
                                 r \in {Pixels(f.right_points)} })

Max(a, b) == IF a > b THEN a ELSE b

\* detect_multiple_faces; an exception of the cascade is caught at line 383
DetectMultipleFaces(f) ==
  LET final_count == Max(f.mp_faces, f.ocv_faces)
  IN IF f.fallback = "raise"
       THEN [ face_count |-> 0, multiple_faces_detected |-> FALSE,
              mediapipe_faces |-> 0, opencv_faces |-> 0 ]
       ELSE [ face_count |-> final_count,
              multiple_faces_detected |-> final_count > 1,
              mediapipe_faces |-> f.mp_faces,
              opencv_faces |-> f.ocv_faces ]

Abs(n) == IF n < 0 THEN -n ELSE n

\* lines 96-102 and 131-137: the items appended by the two passes
PotentialDevice(o) ==
  [ type |-> "potential_mobile_device", confidence |-> 80, bbox |-> [x |-> o[1], y |-> o[2]] ]
DarkDeviceAt(o) ==
  [ type |-> "dark_mobile_device", confidence |-> 90, bbox |-> [x |-> o[1], y |-> o[2]] ]

\* lines 121-128
IsDuplicate(o, mobile_objects) ==
  \E i \in DOMAIN mobile_objects :
    /\ Abs(o[1] - mobile_objects[i].bbox.x) < DuplicateDistance
    /\ Abs(o[2] - mobile_objects[i].bbox.y) < DuplicateDistance

\* lines 81-102: every phone-like contour of the edge pass is appended
EdgePass(contours) == [ i \in DOMAIN contours |-> PotentialDevice(contours[i]) ]

\* lines 112-137: a dark contour is appended unless it is a duplicate
RECURSIVE DarkPass(_, _)
DarkPass(dark_contours, mobile_objects) ==
  IF dark_contours = <<>> THEN mobile_objects
  ELSE DarkPass(Tail(dark_contours),
                IF IsDuplicate(Head(dark_contours), mobile_objects)
                  THEN mobile_objects
                  ELSE Append(mobile_objects, DarkDeviceAt(Head(dark_contours))))

\* lines 147-151
DeviceSummary(mobile_objects) ==
  [ mobile_devices_detected |-> Len(mobile_objects) > 0,
    device_count |-> Len(mobile_objects),
    devices |-> mobile_objects ]

\* detect_mobile_devices
DetectMobileDevices(f) ==
  The({ DeviceSummary(m) : m \in {DarkPass(f.dark_contours, EdgePass(f.contours))} })

\* detect_suspicious_objects: the returned summary of the accepted items
DetectSuspiciousObjects(f) ==
  [ suspicious_objects_detected |-> Len(f.objects) > 0,
    object_count |-> Len(f.objects),
    objects |-> f.objects ]

\* analyze_voice_patterns: the four fields read from the voice snapshot
AnalyzeVoicePatterns(v) ==
  [ speaking |-> v.speaking,
    confidence |-> v.confidence,
    nervousness |-> v.nervousness,
    speech_patterns |-> v.speech_patterns ]

\* str() of a small count, as formatted into the messages
Digit(n) == CASE n = 0 -> "0" [] n = 1 -> "1" [] n = 2 -> "2" [] n = 3 -> "3"
              [] n = 4 -> "4" [] n = 5 -> "5" [] n = 6 -> "6" [] n = 7 -> "7"
              [] n = 8 -> "8" [] n = 9 -> "9"
RECURSIVE Str(_)
Str(n) == IF n < 10 THEN Digit(n) ELSE Str(n \div 10) \o Digit(n % 10)

\* the empty dict {}
EmptyDict == <<>>

\* the analysis dict as created at the top of process_frame
BlankAnalysis ==
  [ face_detected |-> FALSE, face_count |-> 0, confidence |-> 0,
    attention_score |-> 0, engagement_level |-> "low",
    eye_tracking |-> EmptyDict, head_pose |-> EmptyDict,
    multiple_faces |-> EmptyDict, screen_sharing |-> EmptyDict,
    voice_analysis |-> EmptyDict, mobile_devices |-> EmptyDict,
    suspicious_objects |-> EmptyDict,
    suspicious_behavior |-> <<>>, recommendations |-> <<>> ]

MaxScoreOfFirst(scores) == Head(scores)

\* max(face_dets, key=score): the first candidate with the highest score
RECURSIVE MaxScore(_)
MaxScore(scores) ==
  IF Len(scores) = 1 THEN Head(scores)
  ELSE LET rest == MaxScore(Tail(scores))
       IN IF rest > Head(scores) THEN rest ELSE Head(scores)

\* 1) detection, lines 492-506: the frame's confidence and landmarks, or the
\* exception of a detector
Detection(f) ==
  IF f.primary = "raise"
    THEN [raised |-> TRUE, calls |-> <<"detect_faces_mediapipe">>]
  ELSE IF f.primary = "faces"
    THEN [raised |-> FALSE, confidence |-> MaxScore(f.scores),
          landmarks |-> [mesh |-> f.mesh, center |-> f.center],
          calls |-> <<"detect_faces_mediapipe">>]
  ELSE IF f.fallback = "raise"
    THEN [raised |-> TRUE, calls |-> <<"detect_faces_mediapipe", "detect_faces_opencv">>]
  ELSE [raised |-> FALSE,
        confidence |-> IF f.fallback = "faces" THEN FallbackConfidence ELSE 0,
        landmarks |-> [mesh |-> "none", center |-> <<None, None>>],
        calls |-> <<"detect_faces_mediapipe", "detect_faces_opencv">>]

SmoothNoDebounce(d, confidence) ==
  IF confidence > 0
    THEN [d EXCEPT !.with_face_frames = d.with_face_frames + 1,
                   !.no_face_frames = 0,
                   !.state_face_detected = TRUE]
    ELSE [d EXCEPT !.no_face_frames = d.no_face_frames + 1,
                   !.with_face_frames = 0,
                   !.state_face_detected = FALSE]

SmoothNoReset(d, confidence) ==
  IF confidence > 0
    THEN [d EXCEPT !.with_face_frames = d.with_face_frames + 1,
                   !.state_face_detected =
                      IF ~d.state_face_detected /\ d.with_face_frames + 1 >= flip_up
                        THEN TRUE ELSE d.state_face_detected]
    ELSE [d EXCEPT !.no_face_frames = d.no_face_frames + 1,
                   !.state_face_detected =
                      IF d.state_face_detected /\ d.no_face_frames + 1 >= flip_down
                        THEN FALSE ELSE d.state_face_detected]

\* 2) temporal smoothing state machine, lines 508-518
Smooth(d, confidence) ==
  IF confidence > 0
    THEN LET w == d.with_face_frames + 1
         IN [d EXCEPT !.with_face_frames = w,
                      !.no_face_frames = 0,
                      !.state_face_detected =
                         IF ~d.state_face_detected /\ w >= flip_up
                           THEN TRUE ELSE d.state_face_detected]
    ELSE LET n == d.no_face_frames + 1
         IN [d EXCEPT !.no_face_frames = n,
                      !.with_face_frames = 0,
                      !.state_face_detected =
                         IF d.state_face_detected /\ n >= flip_down
                           THEN FALSE ELSE d.state_face_detected]

\* lines 528-534
AttentionScore(head_pose, eye_track) ==
  (IF head_pose.looking_at_screen THEN 40 ELSE 0)
   + (IF eye_track.eye_state = "open" THEN 30 ELSE 0)
   + (IF eye_track.eye_tracking = "looking_at_screen" THEN 30 ELSE 0)

EngagementLevelInclusive(attention_score, confidence) ==
  IF attention_score >= 80 /\ confidence >= 70 THEN "high"
  ELSE IF attention_score >= 50 /\ confidence >= 50 THEN "medium"
  ELSE "low"

\* lines 536-540
EngagementLevel(attention_score, confidence) ==
  IF attention_score > 80 /\ confidence > 70 THEN "high"
  ELSE IF attention_score > 50 /\ confidence > 50 THEN "medium"
  ELSE "low"

\* lines 561-612: the rules, each as <<fires, recommendation, suspicious>>
Rules(head_pose, eye_track, multi, screen, mobile, suspicious, voice_state, engagement_level) ==
  LET hp == head_pose.head_pose
  IN << <<~head_pose.looking_at_screen,
          "Please look directly at the camera", "User not looking at screen">>,
        <<hp \in {"left", "right", "up", "down"},
          "Please face the camera directly (currently looking " \o hp \o ")",
          "Head turned " \o hp>>,
        <<eye_track.eye_state = "closed",
          "Keep your eyes open and focused",
          "Eyes closed - may indicate inattention">>,
        <<eye_track.eye_tracking = "looking_away",
          "Please look at the camera", "Eyes not focused on screen">>,
        <<multi.multiple_faces_detected,
          "Only one person should be visible in the camera",
          "Multiple faces detected (" \o Str(multi.face_count) \o " people)">>,
        <<screen.screen_sharing_detected,
          "Please stay focused on the interview - avoid switching tabs or applications",
          "Potential tab/application switching detected">>,
        <<mobile.mobile_devices_detected,
          "Please remove mobile devices from camera view",
          "Mobile device detected (" \o Str(mobile.device_count) \o " devices)">>,
        <<suspicious.suspicious_objects_detected,
          "Please remove any papers, notes, or reference materials",
          "Suspicious objects detected (" \o Str(suspicious.object_count) \o " objects)">>,
        <<voice_state.nervousness > 70,
          "Try to speak more confidently and clearly",
          "High nervousness detected in voice">>,
        <<voice_state.confidence < 30,
          "Speak with more confidence and clarity",
          "Low confidence detected in voice">>,
        <<engagement_level = "low",
          "Please maintain focus and engagement", "Low engagement detected">> >>

AppendedToRecsOnly(rule, k) == Cond(rule[1] /\ k = 2, rule[k])

\* what a rule appends to recs (k = 2) and to sus (k = 3)
Appended(rule, k) == Cond(rule[1], rule[k])

RECURSIVE Fired(_, _)
Fired(rules, k) ==
  IF rules = <<>> THEN <<>>
  ELSE Appended(Head(rules), k) \o Fired(Tail(rules), k)

RawFace(d, confidence) == confidence > 0

\* the value written to face_detected, lines 544 and 619
ReportedFace(d, confidence) == d.state_face_detected

\* 3) features and output with a face, lines 521-615
PresentBranch(d, f, v, t, confidence, landmarks) ==
  LET head_pose == AnalyzeHeadPose(f, landmarks)
      eye_track == AnalyzeEyeTracking(f, landmarks)
      multi == DetectMultipleFaces(f)
      mobile == DetectMobileDevices(f)
      suspicious == DetectSuspiciousObjects(f)
      attention_score == AttentionScore(head_pose, eye_track)
      engagement_level == EngagementLevel(attention_score, confidence)
      a1 == [BlankAnalysis EXCEPT
               !.face_detected = ReportedFace(d, confidence),
               !.face_count = multi.face_count,
               !.confidence = confidence,
               !.attention_score = attention_score,
               !.engagement_level = engagement_level,
               !.eye_tracking = eye_track,
               !.head_pose = head_pose,
               !.multiple_faces = multi,
               !.mobile_devices = mobile,
               !.suspicious_objects = suspicious]
      ss == DetectScreenSharing(d, a1, landmarks, t)
      voice_state == AnalyzeVoicePatterns(v)
      rules == Rules(head_pose, eye_track, multi, ss.out, mobile, suspicious,
                     voice_state, engagement_level)
  IN [ d |-> ss.d,
       analysis |-> [a1 EXCEPT !.screen_sharing = ss.out,
                               !.voice_analysis = voice_state,
                               !.recommendations = Fired(rules, 2),
                               !.suspicious_behavior = Fired(rules, 3)],
       calls |-> <<"analyze_head_pose", "analyze_eye_tracking",
                   "detect_multiple_faces", "detect_mobile_devices",
                   "detect_suspicious_objects", "detect_screen_sharing",
                   "analyze_voice_patterns">> ]

AbsentBranchWithVoice(d, f, v, t) ==
  LET a1 == [BlankAnalysis EXCEPT
               !.face_detected = ReportedFace(d, 0),
               !.eye_tracking = [eye_state |-> "unknown", eye_tracking |-> "unknown"],
               !.head_pose = [looking_at_screen |-> FALSE, head_pose |-> "unknown"],
               !.multiple_faces = [face_count |-> 0, multiple_faces_detected |-> FALSE],
               !.mobile_devices = [mobile_devices_detected |-> FALSE,
                                   device_count |-> 0, devices |-> <<>>],
               !.suspicious_objects = [suspicious_objects_detected |-> FALSE,
                                       object_count |-> 0, objects |-> <<>>]]
      ss == DetectScreenSharing(d, a1, [mesh |-> "none", center |-> <<None, None>>], t)
  IN [ d |-> ss.d,
       analysis |-> [a1 EXCEPT !.screen_sharing = ss.out,
                               !.voice_analysis = AnalyzeVoicePatterns(v)],
       calls |-> <<"detect_screen_sharing", "analyze_voice_patterns">> ]

\* 3) output without a face, lines 616-631
AbsentBranch(d, f, v, t) ==
  LET a1 == [BlankAnalysis EXCEPT
               !.face_detected = ReportedFace(d, 0),
               !.face_count = 0,
               !.confidence = 0,
               !.attention_score = 0,
               !.engagement_level = "low",
               !.eye_tracking = [eye_state |-> "unknown", eye_tracking |-> "unknown"],
               !.head_pose = [looking_at_screen |-> FALSE, head_pose |-> "unknown"],
               !.multiple_faces = [face_count |-> 0, multiple_faces_detected |-> FALSE],
               !.mobile_devices = [mobile_devices_detected |-> FALSE,
                                   device_count |-> 0, devices |-> <<>>],
               !.suspicious_objects = [suspicious_objects_detected |-> FALSE,
                                       object_count |-> 0, objects |-> <<>>]]
      ss == DetectScreenSharing(d, a1, [mesh |-> "none", center |-> <<None, None>>], t)
  IN [ d |-> ss.d,
       analysis |-> [a1 EXCEPT !.screen_sharing = ss.out],
       calls |-> <<"detect_screen_sharing">> ]

(***************************************************************************)
(* process_frame(frame) on detector d with voice snapshot v at clock t.    *)
(* Returns the detector after the call, whether an exception left the      *)
(* method, the analysis record and the methods that were invoked.          *)
(***************************************************************************)
ProcessFrame(d, f, v, t) ==
  LET dn == Detection(f)
  IN IF dn.raised
       THEN [raised |-> TRUE, d |-> d, calls |-> dn.calls]
       ELSE LET d2 == Smooth(d, dn.confidence)
                b == IF dn.confidence > 0
                       THEN PresentBranch(d2, f, v, t, dn.confidence, dn.landmarks)
                       ELSE AbsentBranch(d2, f, v, t)
            IN [raised |-> FALSE, d |-> b.d, confidence |-> dn.confidence,
                analysis |-> b.analysis, calls |-> dn.calls \o b.calls]

(***************************************************************************)
(* State                                                                   *)
(*   det         : enhanced_face_detector, the module-level detector       *)
(*   now         : time.time()                                             *)
(*   voice       : voice_analysis_service.analysis_state                   *)
(*   pc          : where the websocket_endpoint coroutine of a session is  *)
(*                 suspended: "closed", "recv", "send", "sleep"            *)
(*   cid         : the client_id of a session                              *)
(*   connections : face_manager.connections, client_id -> session          *)
(*   msg         : the local variable msg of a session's coroutine         *)
(*   received    : how many messages, and how many video_frame messages,   *)
(*                 receive_json has returned to a session                  *)
(*   pending     : the message a session is passing to send_json, with the *)
(*                 number of the received message it answers               *)
(*   outbox      : the log of the messages a session has sent: the number  *)
(*                 of the message answered, the type, and whether the      *)
(*                 analysis carries an error field                         *)
(*   delivered   : how many messages the server has received in all        *)
(*   last        : the most recent direct call of process_frame: the frame *)
(*                 and what the call returned                              *)
(*   hist        : the confidences of the most recent frames fed directly  *)
(*   track       : what the records returned by the direct calls showed:   *)
(*                 the head-pose label, the label before it, when the      *)
(*                 label was first seen and when the last record was made, *)
(*                 and the lengths of the runs of looking-away records:    *)
(*                 records whose head pose has a label and is not looking  *)
(*                 at the screen, records with stable presence whose head  *)
(*                 pose is not looking at the screen, records with stable  *)
(*                 presence whose eye tracking is looking_away; and when   *)
(*                 the current run of records with screen_sharing_detected *)
(*                 true began                                              *)
(*   probe       : the most recent direct application of the engagement    *)
(*                 classification or of detect_mobile_devices              *)
(*   evaluation  : the request and the response of the most recent         *)
(*                 POST /interview/evaluate                                *)
(***************************************************************************)
NoMsg == [type |-> "none"]
NoCall == [called |-> FALSE]
NoneReceived == [msgs |-> 0, frames |-> 0]
NoTrack == [ pose |-> "none", prev_pose |-> "none", pose_since |-> None, at |-> None,
             away_run |-> 0, present_away_run |-> 0, eyes_away_run |-> 0,
             switch_since |-> None ]
NoProbe == [applied |-> FALSE]
NoEvaluation == [done |-> FALSE]

Init ==
  /\ det = NewDetector(T0)
  /\ now = T0
  /\ voice = [speaking |-> FALSE, confidence |-> 0, nervousness |-> 0,
              speech_patterns |-> <<>>]
  /\ pc = [s \in Sessions |-> "closed"]
  /\ cid = [s \in Sessions |-> "none"]
  /\ connections = [c \in ClientIds |-> "none"]
  /\ msg = [s \in Sessions |-> NoMsg]
  /\ received = [s \in Sessions |-> NoneReceived]
  /\ pending = [s \in Sessions |-> NoMsg]
  /\ outbox = [s \in Sessions |-> <<>>]
  /\ delivered = 0
  /\ last = NoCall
  /\ hist = <<>>
  /\ track = NoTrack
  /\ probe = NoProbe
  /\ evaluation = NoEvaluation

\* the last n entries of a sequence
LastN(q, n) == IF Len(q) <= n THEN q ELSE SubSeq(q, Len(q) - n + 1, Len(q))

HistLen == IF flip_up > flip_down THEN flip_up ELSE flip_down

\* a frame may be fed while the presence counters stay within the caps
WithinCaps(d, f, capW, capN) ==
  LET dn == Detection(f)
  IN IF dn.raised THEN TRUE
     ELSE IF dn.confidence > 0 THEN d.with_face_frames < capW
     ELSE d.no_face_frames < capN

\* the record of a call of process_frame
CallRecord(f, r) == [called |-> TRUE, frame |-> f, result |-> r]

\* the confidence window after a call with result r
HistAfter(h, r) == IF r.raised THEN h ELSE LastN(Append(h, r.confidence), HistLen)

Min(a, b) == IF a < b THEN a ELSE b

\* the head-pose labels analyze_head_pose gives on a full landmark set
PoseLabels == {"center", "left", "right", "up", "down"}

\* what the returned records have shown after a call at clock t with result
\* r; the run lengths are counted up to cap
TrackAfter(k, r, t, cap) ==
  IF r.raised THEN k
  ELSE LET a == r.analysis
           p == a.head_pose.head_pose
           away == ~a.head_pose.looking_at_screen
           eyes == a.eye_tracking.eye_tracking = "looking_away"
       IN [ pose |-> p,
            prev_pose |-> IF k.pose = p THEN k.prev_pose ELSE k.pose,
            pose_since |-> IF k.pose = p THEN k.pose_since ELSE t,
            at |-> t,
            away_run |-> IF away /\ p \in PoseLabels
                           THEN Min(k.away_run + 1, cap) ELSE 0,
            present_away_run |->
               IF away /\ a.face_detected
                 THEN Min(k.present_away_run + 1, cap) ELSE 0,
            eyes_away_run |->
               IF eyes /\ a.face_detected
                 THEN Min(k.eyes_away_run + 1, cap) ELSE 0,
            switch_since |->
               IF ~a.screen_sharing.screen_sharing_detected THEN None
               ELSE IF k.switch_since # None THEN k.switch_since ELSE t ]

(***************************************************************************)
(* A direct call enhanced_face_detector.process_frame(frame), made while   *)
(* the looking-away counters stay within capA                              *)
(***************************************************************************)
FeedCapped(f, capW, capN, capA) ==
  /\ WithinCaps(det, f, capW, capN)
  /\ \E r \in {ProcessFrame(det, f, voice, now)} :
        /\ r.d.looking_away_frames <= capA
        /\ r.d.eyes_away_frames <= capA
        /\ det' = r.d
        /\ last' = CallRecord(f, r)
        /\ hist' = HistAfter(hist, r)
        /\ track' = TrackAfter(track, r, now, capA + 1)
  /\ UNCHANGED <<now, voice, pc, cid, connections, msg, received, pending, outbox, delivered, probe, evaluation>>

Feed(f, capW, capN) == FeedCapped(f, capW, capN, MaxAway)

\* the wall clock advances by dt tenths of a second
Tick(dt, max) ==
  /\ now + dt <= T0 + max
  /\ now' = now + dt
  /\ UNCHANGED <<det, voice, pc, cid, connections, msg, received, pending, outbox, delivered, last, hist, track, probe, evaluation>>

(***************************************************************************)
(* Frames fed to the detector                                              *)
(***************************************************************************)
HeadCenter == [looking_at_screen |-> TRUE, head_pose |-> "center", gaze_distance |-> 0]
HeadLeft == [looking_at_screen |-> FALSE, head_pose |-> "left", gaze_distance |-> 250]

\* eye landmarks: the eye corners `width` apart and the lids `gap` apart
\* (hundredths of the frame), the pair of eyes centred on column x
Eyes(x, width, gap) ==
  [ left_points |-> << <<x - 10, 45>>, <<x - 8, 45 - gap>>,
                       <<x - 10 + width, 45>>, <<x - 8, 45 + gap>> >>,
    right_points |-> << <<x + 10, 45>>, <<x + 8, 45 - gap>>,
                        <<x + 10 - width, 45>>, <<x + 8, 45 + gap>> >> ]

\* open eyes in the middle of the frame, and towards its left edge
EyeOnScreen == Eyes(50, 5, 3)
EyeAway == Eyes(11, 5, 3)

\* an empty room: no detector finds anything
EmptyFrame ==
  [ primary |-> "none", scores |-> <<>>, fallback |-> "none", mesh |-> "none",
    center |-> <<50, 50>>, head |-> HeadCenter,
    left_points |-> EyeOnScreen.left_points,
    right_points |-> EyeOnScreen.right_points,
    mp_faces |-> 0, ocv_faces |-> 0, contours |-> <<>>, dark_contours |-> <<>>,
    objects |-> <<>> ]

\* one face found by the primary detector with the given score and landmarks
FaceFrame(score, mesh, head, eye) ==
  [EmptyFrame EXCEPT !.primary = "faces", !.scores = <<score>>, !.mesh = mesh,
                     !.head = head,
                     !.left_points = eye.left_points,
                     !.right_points = eye.right_points,
                     !.mp_faces = IF mesh = "none" THEN 0 ELSE 1,
                     !.ocv_faces = 1]

\* frames of the presence specification: every outcome of the two detectors
PresenceFrames ==
  { EmptyFrame,
    [EmptyFrame EXCEPT !.primary = "raise"],
    [EmptyFrame EXCEPT !.fallback = "raise"],
    [EmptyFrame EXCEPT !.fallback = "faces", !.ocv_faces = 1],
    FaceFrame(0, "none", HeadCenter, EyeOnScreen),
    FaceFrame(90, "none", HeadCenter, EyeOnScreen),
    FaceFrame(90, "full", HeadCenter, EyeOnScreen) }

\* frames of the timed specification
SwitchFrames ==
  { EmptyFrame,
    FaceFrame(90, "full", HeadCenter, EyeOnScreen),
    FaceFrame(90, "full", HeadLeft, EyeAway) }

\* seconds between two frames of a stalled stream, in tenths: sums of these
\* reach 4.8, 4.9, 5.0 and 5.1 seconds
TickSteps == {16, 17}

\* longest run of frames with a face in the timed specification
MaxSwitchRun == 3

(***************************************************************************)
(* The presence specification: process_frame called on a fresh detector    *)
(* with every outcome of the detectors, the clock standing still.          *)
(***************************************************************************)
NextPresence == \E f \in PresenceFrames : Feed(f, MaxRun, MaxAbsent)

SpecPresence == Init /\ [][NextPresence]_vars

(***************************************************************************)
(* The timed specification: process_frame called on a fresh detector       *)
(* while the clock advances.                                               *)
(***************************************************************************)
FeedTimed == \E f \in SwitchFrames : Feed(f, MaxSwitchRun, MaxAbsent)

Advance == \E dt \in TickSteps : Tick(dt, MaxTime)

NextSwitch == FeedTimed \/ Advance

SpecSwitch == Init /\ [][NextSwitch]_vars

(***************************************************************************)
(* voice_analysis_service.update_voice_analysis: the snapshot that         *)
(* analyze_voice_patterns reads is replaced by v                           *)
(***************************************************************************)
UpdateVoiceAnalysis(v) ==
  /\ voice # v
  /\ voice' = v
  /\ UNCHANGED <<det, now, pc, cid, connections, msg, received, pending, outbox, delivered, last, hist, track, probe, evaluation>>

\* no speaking detected, voice_analysis.py lines 60-66
Silent == [speaking |-> FALSE, confidence |-> 0, nervousness |-> 0,
           speech_patterns |-> <<>>]

\* an utterance scored with the given confidence and nervousness
Spoken(confidence, nervousness, patterns) ==
  [speaking |-> TRUE, confidence |-> confidence, nervousness |-> nervousness,
   speech_patterns |-> patterns]

\* a calm and confident answer
CalmVoice == Spoken(80, 10, <<>>)

VoiceStates ==
  { Silent, CalmVoice, Spoken(30, 70, <<"Short responses">>),
    Spoken(20, 75, <<"Frequent hesitations", "Hedging language">>) }

(***************************************************************************)
(* The scenario specification: the first frames of a session on a fresh    *)
(* detector, while the clock advances and the voice snapshot changes.      *)
(***************************************************************************)
\* one attentive candidate: score 0.9, looking at the screen, eyes open and
\* on the screen, one face, no devices, no objects
AttentiveFrame == FaceFrame(90, "full", HeadCenter, EyeOnScreen)

ScenarioFrames == { EmptyFrame, AttentiveFrame }

ScenarioVoices == { Silent, CalmVoice }

FeedScenario == \E f \in ScenarioFrames : Feed(f, MaxScenarioRun, MaxScenarioRun)

Speak == \E v \in ScenarioVoices : UpdateVoiceAnalysis(v)

NextScenario == FeedScenario \/ Advance \/ Speak

SpecScenario == Init /\ [][NextScenario]_vars

(***************************************************************************)
(* The fusion specification: process_frame called on a fresh detector with *)
(* every combination of head pose, eye direction and score around the      *)
(* thresholds, and the engagement classification of lines 536-540 applied  *)
(* to given scores.                                                        *)
(***************************************************************************)
FusionScores == {50, 55, 70, 75, 90}

FusionFrames ==
  { FaceFrame(c, "full", h, e) :
      c \in FusionScores, h \in {HeadCenter, HeadLeft}, e \in {EyeOnScreen, EyeAway} }
    \cup { FaceFrame(90, "none", HeadCenter, EyeOnScreen) }

FeedFusion ==
  \E f \in FusionFrames :
    Len(hist) < MaxFusionCalls /\ Feed(f, MaxFusionCalls, MaxFusionCalls)

\* <<attention_score, confidence>>
FusionInputs ==
  { <<85, 75>>, <<60, 55>>, <<20, 90>>, <<80, 90>>, <<85, 70>>, <<50, 90>>,
    <<60, 50>>, <<100, 100>>, <<0, 0>>, <<81, 71>> }

\* the conditional expression of lines 536-540 on the given scores
Classify(attention_score, confidence) ==
  /\ probe' = [ applied |-> TRUE, attention_score |-> attention_score,
                confidence |-> confidence,
                engagement_level |-> EngagementLevel(attention_score, confidence) ]
  /\ UNCHANGED <<det, now, voice, pc, cid, connections, msg, received, pending, outbox, delivered, last, hist, track, evaluation>>

ClassifyAny == \E i \in FusionInputs : Classify(i[1], i[2])

NextFusion == FeedFusion \/ ClassifyAny

SpecFusion == Init /\ [][NextFusion]_vars

(***************************************************************************)
(* The evaluation specification: POST /interview/evaluate with up to       *)
(* MaxQuestions questions and answers; the language model is absent,       *)
(* replies with text that is not JSON, or replies with JSON holding some   *)
(* number of feedback items.                                               *)
(***************************************************************************)
ExpectedPairs == 5

Question(i) == "question " \o Str(i)
Answer(i) == "answer " \o Str(i)

RECURSIVE Padded(_, _)
Padded(q, filler) == IF Len(q) < ExpectedPairs THEN Padded(Append(q, filler), filler) ELSE q

\* lines 122-132: pad to five entries, then keep the first five
FiveOf(q, filler) == SubSeq(Padded(q, filler), 1, ExpectedPairs)

\* _create_fallback_result: one item per zipped pair
FallbackItem(q, a) == [ question |-> q, answer |-> a, feedback |-> "Basic evaluation completed" ]

CreateFallbackResult(questions, answers) ==
  [ questions_evaluated |-> Len(questions),
    overall_analysis |-> "Basic evaluation completed. AI evaluation not available.",
    detailed_feedback |->
      [ i \in 1..Min(Len(questions), Len(answers)) |-> FallbackItem(questions[i], answers[i]) ] ]

\* an item of the model's reply
ModelItem(i) == [ question |-> "model question " \o Str(i),
                  answer |-> "model answer " \o Str(i),
                  feedback |-> "model feedback" ]

\* lines 165-178: the model's item when it gave one, else an item of the pair
MissingItem(q, a) == [ question |-> q, answer |-> a, feedback |-> "Evaluation completed" ]

\* the language model: not configured, replying with text that is not JSON,
\* or replying with JSON that holds the given number of feedback items
NoModel == [kind |-> "none", items |-> 0]
NotJson == [kind |-> "not_json", items |-> 0]
JsonReply(k) == [kind |-> "json", items |-> k]

EvaluateSession(questions, answers, model) ==
  IF model.kind # "json"
    THEN CreateFallbackResult(FiveOf(questions, "No question provided"),
                              FiveOf(answers, "No answer provided"))
    ELSE [ questions_evaluated |-> ExpectedPairs,
           overall_analysis |-> "model analysis",
           detailed_feedback |->
             [ i \in 1..ExpectedPairs |->
                 IF i <= model.items THEN ModelItem(i)
                 ELSE MissingItem(FiveOf(questions, "No question provided")[i],
                                  FiveOf(answers, "No answer provided")[i]) ] ]

EvaluateInterview(n, m, model) ==
  /\ \E r \in { EvaluateSession([i \in 1..n |-> Question(i)], [i \in 1..m |-> Answer(i)], model) } :
       evaluation' = [ done |-> TRUE, questions |-> n, answers |-> m, model |-> model,
                       result |-> r ]
  /\ UNCHANGED <<det, now, voice, pc, cid, connections, msg, received, pending, outbox, delivered, last, hist, track, probe>>

Evaluate ==
  \E n \in 0..MaxQuestions, m \in 0..MaxQuestions,
     model \in {NoModel, NotJson} \cup { JsonReply(k) : k \in 0..MaxQuestions } :
    EvaluateInterview(n, m, model)

NextEvaluate == Evaluate

SpecEvaluate == Init /\ [][NextEvaluate]_vars

(***************************************************************************)
(* The record specification: process_frame called on a fresh detector with *)
(* frames that make each detector outcome, each eye shape and each rule of *)
(* the recommendations happen, the session starting at once or 5.1 s after *)
(* the detector was constructed.                                           *)
(***************************************************************************)
\* eyes with the lids together, and with the lids 8 pixels apart on an eye
\* 36 pixels wide
EyeLidsTogether == Eyes(50, 5, 0)
EyeLidsNarrow == Eyes(50, 6, 1)

\* an item of the object heuristic
PaperNote == [type |-> "potential_paper_note", confidence |-> 60]

RecordFrames ==
  { EmptyFrame,
    [EmptyFrame EXCEPT !.primary = "raise"],
    [EmptyFrame EXCEPT !.fallback = "raise"],
    [EmptyFrame EXCEPT !.fallback = "faces", !.ocv_faces = 1],
    FaceFrame(0, "none", HeadCenter, EyeOnScreen),
    FaceFrame(90, "none", HeadCenter, EyeOnScreen),
    FaceFrame(90, "short", HeadCenter, EyeOnScreen),
    AttentiveFrame,
    [AttentiveFrame EXCEPT !.fallback = "raise"],
    [FaceFrame(30, "full", HeadCenter, EyeOnScreen) EXCEPT !.fallback = "faces"],
    FaceFrame(90, "full", HeadLeft, EyeAway),
    FaceFrame(90, "full", HeadCenter, EyeLidsTogether),
    FaceFrame(90, "full", HeadCenter, EyeLidsNarrow),
    [AttentiveFrame EXCEPT !.scores = <<55, 90, 75>>, !.mp_faces = 3, !.ocv_faces = 2],
    [AttentiveFrame EXCEPT !.dark_contours = << <<100, 100>> >>],
    [AttentiveFrame EXCEPT !.contours = << <<300, 200>> >>,
                           !.dark_contours = << <<100, 100>> >>,
                           !.objects = <<PaperNote>>] }

FeedRecord ==
  \E f \in RecordFrames :
    Len(hist) < MaxRecordCalls /\ Feed(f, MaxRecordCalls, MaxRecordCalls)

SpeakAny == \E v \in VoiceStates : UpdateVoiceAnalysis(v)

\* the first frame arrives 5.1 s after the detector was constructed
LateStart == Tick(NoFaceSeconds + 1, NoFaceSeconds + 1)

NextRecord == FeedRecord \/ SpeakAny \/ LateStart

SpecRecord == Init /\ [][NextRecord]_vars

(***************************************************************************)
(* The looking-away specification: process_frame called on a fresh         *)
(* detector with long runs of frames of a candidate who looks away, the    *)
(* clock standing still.                                                   *)
(***************************************************************************)
AwayFrames ==
  { EmptyFrame,
    FaceFrame(90, "full", HeadCenter, EyeOnScreen),
    FaceFrame(90, "full", HeadLeft, EyeOnScreen),
    FaceFrame(90, "full", HeadCenter, EyeAway) }

NextAway == \E f \in AwayFrames : FeedCapped(f, MaxLongRun + 1, MaxAbsent, MaxLongRun)

SpecAway == Init /\ [][NextAway]_vars

(***************************************************************************)
(* The duration specification: long runs of frames of a candidate whose    *)
(* eyes, or whose head, are turned away, with the clock advancing in steps *)
(* of 0.1 s.                                                               *)
(***************************************************************************)
DurationFrames ==
  { FaceFrame(90, "full", HeadCenter, EyeAway),
    FaceFrame(90, "full", HeadLeft, EyeOnScreen) }

FeedDuration ==
  \E f \in DurationFrames : FeedCapped(f, MaxLongRun + 1, MaxAbsent, MaxLongRun)

Elapse == Tick(1, MaxDurationTime)

NextDuration == FeedDuration \/ Elapse

SpecDuration == Init /\ [][NextDuration]_vars

(***************************************************************************)
(* The device specification: detect_mobile_devices on frames in which each *)
(* pass finds up to MaxContours phone-like contours, some of them closer   *)
(* than 50 pixels to each other, some exactly 50 pixels apart.             *)
(***************************************************************************)
Origins == { <<100, 100>>, <<110, 148>>, <<149, 149>>, <<150, 100>>, <<300, 200>> }

\* the lists of up to n origins
RECURSIVE ContourLists(_)
ContourLists(n) ==
  IF n = 0 THEN { <<>> }
  ELSE ContourLists(n - 1)
         \cup { Append(c, o) : c \in ContourLists(n - 1), o \in Origins }

\* detect_mobile_devices keeps no state: one call on a frame
ScanDevices(contours, dark_contours) ==
  /\ ~probe.applied
  /\ probe' = [ applied |-> TRUE, contours |-> contours, dark_contours |-> dark_contours,
                mobile |-> DetectMobileDevices([EmptyFrame EXCEPT
                                                  !.contours = contours,
                                                  !.dark_contours = dark_contours]) ]
  /\ UNCHANGED <<det, now, voice, pc, cid, connections, msg, received, pending, outbox, delivered, last, hist, track, evaluation>>

ScanAny ==
  \E contours \in ContourLists(MaxContours), dark_contours \in ContourLists(MaxContours) :
    /\ \A i, j \in DOMAIN contours : i # j => contours[i] # contours[j]
    /\ \A i, j \in DOMAIN dark_contours : i # j => dark_contours[i] # dark_contours[j]
    /\ ScanDevices(contours, dark_contours)

NextDevices == ScanAny

SpecDevices == Init /\ [][NextDevices]_vars

(***************************************************************************)
(* The reasons specification: long runs of frames with the head, the eyes  *)
(* or both turned away and frames without a face, the first frame arriving *)
(* at once or 5.1 s after the detector was constructed.                    *)
(***************************************************************************)
ReasonFrames ==
  { EmptyFrame,
    FaceFrame(90, "full", HeadLeft, EyeOnScreen),
    FaceFrame(90, "full", HeadLeft, EyeAway) }

FeedReasons ==
  \E f \in ReasonFrames : FeedCapped(f, MaxLongRun + 1, MaxAbsent, MaxLongRun)

NextReasons == FeedReasons \/ LateStart

SpecReasons == Init /\ [][NextReasons]_vars

(***************************************************************************)
(* The movement specification: process_frame called on a fresh detector    *)
(* with frames of a candidate whose face is in the middle of the frame,    *)
(* 12 pixels to the left of it, or 240 pixels to the left of it.           *)
(***************************************************************************)
FaceAt(x) ==
  [FaceFrame(90, "full", HeadCenter, EyeOnScreen) EXCEPT !.center = <<x, 50>>]

MoveFrames == { EmptyFrame, FaceAt(50), FaceAt(48), FaceAt(10) }

NextMove == \E f \in MoveFrames : Feed(f, MaxMoveRun, MaxAbsent)

SpecMove == Init /\ [][NextMove]_vars

(***************************************************************************)
(* The WebSocket endpoint /face-detection/ws/{client_id}                   *)
(***************************************************************************)
\* the analysis of the error reply, lines 706-720
ErrorAnalysis(e) ==
  [ face_detected |-> FALSE, face_count |-> 0, confidence |-> 0,
    attention_score |-> 0, engagement_level |-> "low",
    eye_tracking |-> [eye_state |-> "unknown", eye_tracking |-> "unknown"],
    head_pose |-> [looking_at_screen |-> FALSE, head_pose |-> "unknown"],
    multiple_faces |-> [face_count |-> 0, multiple_faces_detected |-> FALSE],
    screen_sharing |-> [screen_sharing_detected |-> FALSE,
                        time_since_last_activity |-> 0],
    voice_analysis |-> [speaking |-> FALSE, confidence |-> 0,
                        nervousness |-> 0, speech_patterns |-> <<>>],
    suspicious_behavior |-> <<"Frame processing error">>,
    recommendations |-> <<"Please check camera connection">>,
    error |-> e ]

\* the analysis_result message, lines 694-699 and 702-724
AnalysisResult(analysis, t) ==
  [type |-> "analysis_result", data |-> [analysis |-> analysis, timestamp |-> t]]

Pong == [type |-> "pong"]

OnFrameExceptionClose(e, d, t) ==
  [next |-> "closed", reply |-> NoMsg, d |-> d, call |-> NoCall]

\* except Exception of the per-frame try, lines 700-724
OnFrameException(e, d, t) ==
  [next |-> "send", reply |-> AnalysisResult(ErrorAnalysis(e), t),
   d |-> d, call |-> NoCall]

\* what one iteration of the receive loop does with message m, from the
\* return of receive_json to the next await (lines 676-729):
\*   next  : "send" (a reply is passed to send_json), "recv" (continue),
\*           "sleep" (nothing to send) or "closed" (the exception left the loop)
Handle(m, d, v, t) ==
  IF m.type = "video_frame" THEN
    IF m.payload = "nodict"
      \* frame_data.get raises outside the inner try
      THEN [next |-> "closed", reply |-> NoMsg, d |-> d, call |-> NoCall]
    ELSE IF m.payload = "missing"
      THEN [next |-> "recv", reply |-> NoMsg, d |-> d, call |-> NoCall]
    ELSE IF m.payload = "badb64"
      THEN OnFrameException("Incorrect padding", d, t)
    ELSE IF m.payload = "garbage"
      \* cv2.imdecode returns None
      THEN [next |-> "recv", reply |-> NoMsg, d |-> d, call |-> NoCall]
    ELSE LET r == ProcessFrame(d, m.frame, v, t)
         IN IF r.raised
              THEN OnFrameException("detector failure", r.d, t)
              ELSE [next |-> "send", reply |-> AnalysisResult(r.analysis, t),
                    d |-> r.d, call |-> r]
  ELSE IF m.type = "ping"
    THEN [next |-> "send", reply |-> Pong, d |-> d, call |-> NoCall]
  ELSE [next |-> "sleep", reply |-> NoMsg, d |-> d, call |-> NoCall]

\* the detector a session's handler works on, line 692
DetectorOf(s) == det

CanReceiveEarly(s) == pc[s] \in {"recv", "send"}

\* the handler may take the next message only when suspended in receive_json
CanReceive(s) == pc[s] = "recv"

\* finally: face_manager.connections.pop(client_id, None), line 736
Pop(conns, c) == [conns EXCEPT ![c] = "none"]

\* websocket.accept() and the registration of the connection, lines 669-672
Connect(s, c) ==
  /\ pc[s] = "closed"
  /\ pc' = [pc EXCEPT ![s] = "recv"]
  /\ cid' = [cid EXCEPT ![s] = c]
  /\ connections' = [connections EXCEPT ![c] = s]
  /\ msg' = [msg EXCEPT ![s] = NoMsg]
  /\ received' = [received EXCEPT ![s] = NoneReceived]
  /\ outbox' = [outbox EXCEPT ![s] = <<>>]
  /\ UNCHANGED <<det, now, voice, pending, delivered, last, hist, track, probe, evaluation>>

\* receive_json returns message m and the loop body runs to its next await
Recv(s, m) ==
  /\ CanReceive(s)
  /\ delivered < MaxMsgs
  /\ delivered' = delivered + 1
  /\ \E h \in {Handle(m, DetectorOf(s), voice, now)} :
        /\ det' = h.d
        /\ msg' = [msg EXCEPT ![s] = m]
        /\ received' = [received EXCEPT ![s] =
                          [msgs |-> @.msgs + 1,
                           frames |-> @.frames + IF m.type = "video_frame"
                                                   THEN 1 ELSE 0]]
        /\ pending' = [pending EXCEPT ![s] =
                          IF h.reply = NoMsg THEN NoMsg
                          ELSE [for |-> received[s].msgs + 1, msg |-> h.reply]]
        /\ pc' = [pc EXCEPT ![s] = h.next]
        /\ IF h.next = "closed"
             THEN /\ connections' = Pop(connections, cid[s])
                  /\ cid' = [cid EXCEPT ![s] = "none"]
             ELSE UNCHANGED <<connections, cid>>
        /\ UNCHANGED outbox
  /\ UNCHANGED <<now, voice, last, hist, track, probe, evaluation>>

\* the log entry of a sent message
Logged(p) ==
  [ for |-> p.for, type |-> p.msg.type,
    error |-> IF p.msg.type = "analysis_result"
                THEN "error" \in DOMAIN p.msg.data.analysis ELSE FALSE ]

\* send_json completes
Send(s) ==
  /\ pc[s] = "send"
  /\ outbox' = [outbox EXCEPT ![s] = Append(@, Logged(pending[s]))]
  /\ pending' = [pending EXCEPT ![s] = NoMsg]
  /\ pc' = [pc EXCEPT ![s] = "sleep"]
  /\ UNCHANGED <<det, now, voice, cid, connections, msg, received, delivered, last, hist, track, probe, evaluation>>

\* asyncio.sleep(0) returns, line 729
Sleep(s) ==
  /\ pc[s] = "sleep"
  /\ pc' = [pc EXCEPT ![s] = "recv"]
  /\ UNCHANGED <<det, now, voice, cid, connections, msg, received, pending, outbox, delivered, last, hist, track, probe, evaluation>>

\* the client goes away: the pending await raises WebSocketDisconnect and the
\* finally block runs, lines 731-737
Disconnect(s) ==
  /\ pc[s] # "closed"
  /\ pc' = [pc EXCEPT ![s] = "closed"]
  /\ connections' = Pop(connections, cid[s])
  /\ cid' = [cid EXCEPT ![s] = "none"]
  /\ pending' = [pending EXCEPT ![s] = NoMsg]
  /\ UNCHANGED <<det, now, voice, msg, received, outbox, delivered, last, hist, track, probe, evaluation>>

\* GET /status: the number of entries of face_manager.connections, line 803
GetFaceDetectionStatus ==
  [ active_connections |-> Cardinality({ c \in ClientIds : connections[c] # "none" }) ]

\* POST /start-camera/{client_id}: the message of the response, lines 764-767
StartCameraForClient(c) ==
  IF connections[c] # "none" THEN "Camera started successfully"
                             ELSE "Client not connected"

\* frames a client sends in the session specification
SessFrames ==
  { EmptyFrame,
    [EmptyFrame EXCEPT !.primary = "raise"],
    FaceFrame(90, "full", HeadCenter, EyeOnScreen) }

\* messages a client sends
Messages ==
  { [type |-> "ping"], [type |-> "hello"] }
    \cup { [type |-> "video_frame", payload |-> p] :
             p \in {"nodict", "missing", "badb64", "garbage"} }
    \cup { [type |-> "video_frame", payload |-> "image", frame |-> f] :
             f \in SessFrames }

Next ==
  \/ \E s \in Sessions, c \in ClientIds : Connect(s, c)
  \/ \E s \in Sessions, m \in Messages : Recv(s, m)
  \/ \E s \in Sessions : Send(s)
  \/ \E s \in Sessions : Sleep(s)
  \/ \E s \in Sessions : Disconnect(s)

Spec == Init /\ [][Next]_vars

(***************************************************************************)
(* Properties                                                              *)
(***************************************************************************)
\* the last call returned a record (no exception left process_frame)
Returned == last.called /\ ~last.result.raised

\* the length of the run of frames with a face (pos) or without one (~pos)
\* that ends the window h
RECURSIVE TrailingRun(_, _)
TrailingRun(h, pos) ==
  IF h = <<>> THEN 0
  ELSE IF (h[Len(h)] > 0) = pos
    THEN 1 + TrailingRun(SubSeq(h, 1, Len(h) - 1), pos)
    ELSE 0

Has(q, x) == \E i \in DOMAIN q : q[i] = x

\* a detector raises on the frame before a confidence is computed
DetectorRaises(f) ==
  f.primary = "raise" \/ (f.primary = "none" /\ f.fallback = "raise")

\* C1: the stable presence flag goes false->true only on a frame with
\* confidence > 0 that is at least the flip_up-th consecutive such frame, and
\* does so on that frame; it goes true->false only on a frame with
\* confidence 0 that is at least the flip_down-th consecutive such frame, and
\* does so on that frame; on every other frame it keeps its value.
PresenceFlipC1 ==
  [][ LET was == det.state_face_detected
          is == det'.state_face_detected
          fed == last'.called /\ ~last'.result.raised
          up == fed /\ last'.result.confidence > 0
                    /\ TrailingRun(hist', TRUE) >= flip_up
          down == fed /\ last'.result.confidence = 0
                      /\ TrailingRun(hist', FALSE) >= flip_down
      IN /\ (~was /\ is) => up
         /\ (was /\ ~is) => down
         /\ (~was /\ up) => is
         /\ (was /\ down) => ~is ]_vars

\* C1 witness: after [0, 0, >0, >0] the detector is PRESENT on the second
\* frame with a face
PresenceFlipWitnessC1 ==
  /\ hist = <<0, 0, 90, 90>>
  /\ det.with_face_frames = 2
  /\ det.state_face_detected

\* C2: a message handled for one session never changes the detector state
\* that another connected session works on.
SessionIsolationC2 ==
  [][ \A s \in Sessions, t \in Sessions :
        (s # t /\ pc[t] # "closed" /\ received'[s].msgs = received[s].msgs + 1)
          => DetectorOf(t)' = DetectorOf(t) ]_vars

\* C3: a session that connects starts on a fresh detector state: presence
\* ABSENT, both counters 0, last_activity_time the time of the connect, no
\* screen-switch counters or start time carried over.
FreshSessionC3 ==
  [][ \A s \in Sessions :
        (pc[s] = "closed" /\ pc'[s] # "closed")
          => DetectorOf(s)' = NewDetector(now') ]_vars

\* C4: the face_detected field of every record process_frame returns is the
\* stable presence state after the frame's hysteresis update, on both
\* branches.
FaceDetectedStableC4 ==
  Returned => last.result.analysis.face_detected = det.state_face_detected

\* C4 witness: a record of the confidence == 0 branch that still reports the
\* face, the raw test confidence > 0 being false
FaceDetectedStableWitnessC4 ==
  /\ Returned
  /\ last.result.confidence = 0
  /\ last.result.analysis.face_detected

\* an exception is raised inside the per-frame try of the handler
RaisesInTry(m) ==
  /\ m.type = "video_frame"
  /\ \/ m.payload = "badb64"
     \/ m.payload = "image" /\ DetectorRaises(m.frame)

DetectorFailureAbsentC6 ==
  (last.called /\ DetectorRaises(last.frame))
    => /\ ~last.result.raised
       /\ last.result.confidence = 0
       /\ det.no_face_frames > 0

\* the analysis_result messages in a log
RECURSIVE Results(_)
Results(q) ==
  IF q = <<>> THEN 0
  ELSE (IF Head(q).type = "analysis_result" THEN 1 ELSE 0) + Results(Tail(q))

\* C7: every video_frame message a session received has been answered by
\* exactly one analysis_result when the handler waits for the next message.
EveryFrameAnsweredC7 ==
  \A s \in Sessions :
    pc[s] = "recv" => Results(outbox[s]) = received[s].frames

\* C8: a session takes a message only when no reply is pending, the reply
\* being sent answers the message received last, and the replies sent answer
\* the messages in the order they arrived.
SequentialFramesC8 ==
  [][ \A s \in Sessions :
        /\ received'[s].msgs = received[s].msgs + 1
             => pending[s] = NoMsg /\ pc[s] = "recv"
        /\ pending'[s] # NoMsg
             => pc'[s] = "send" /\ pending'[s].for = received'[s].msgs
        /\ \A i \in DOMAIN outbox'[s] :
             /\ outbox'[s][i].for <= received'[s].msgs
             /\ \A j \in DOMAIN outbox'[s] :
                  i < j => outbox'[s][i].for < outbox'[s][j].for
        /\ pending'[s] # NoMsg
             => \A i \in DOMAIN outbox'[s] : outbox'[s][i].for < pending'[s].for ]_vars

\* C8 witness: a session has the replies to its first and second frame, in
\* that order, and is handling a third
SequentialFramesWitnessC8 ==
  \E s \in Sessions :
    /\ Len(outbox[s]) = 2
    /\ outbox[s][1].for = 1 /\ outbox[s][2].for = 2
    /\ outbox[s][1].type = "analysis_result"
    /\ outbox[s][2].type = "analysis_result"
    /\ received[s].msgs = 3
    /\ pc[s] = "send"

\* the fields of the detector that detect_screen_sharing works on
ScreenSwitchState(d) ==
  [ last_activity_time |-> d.last_activity_time,
    last_face_position |-> d.last_face_position,
    screen_switch_detected |-> d.screen_switch_detected,
    screen_switch_start_time |-> d.screen_switch_start_time,
    looking_away_frames |-> d.looking_away_frames,
    eyes_away_frames |-> d.eyes_away_frames,
    last_head_pose |-> d.last_head_pose,
    head_pose_change_time |-> d.head_pose_change_time ]

\* the all-unknown, low-engagement record
UnknownRecord(a) ==
  /\ a.eye_tracking.eye_state = "unknown"
  /\ a.eye_tracking.eye_tracking = "unknown"
  /\ a.head_pose.head_pose = "unknown"
  /\ ~a.head_pose.looking_at_screen
  /\ a.attention_score = 0
  /\ a.engagement_level = "low"
  /\ a.recommendations = <<>>
  /\ a.suspicious_behavior = <<>>

\* the step is a call of process_frame that found confidence 0
AbsentCall == last'.called /\ ~last'.result.raised /\ last'.result.confidence = 0

\* C9 as stated: a frame with confidence 0 yields the all-unknown record
\* without invoking the mobile-device heuristic, the suspicious-object
\* heuristic, the screen-switch inferencer or the voice adapter, and leaves
\* the screen-switch state unchanged.
AbsentShortCircuitC9 ==
  [][ AbsentCall =>
        /\ UnknownRecord(last'.result.analysis)
        /\ ~Has(last'.result.calls, "detect_mobile_devices")
        /\ ~Has(last'.result.calls, "detect_suspicious_objects")
        /\ ~Has(last'.result.calls, "detect_screen_sharing")
        /\ ~Has(last'.result.calls, "analyze_voice_patterns")
        /\ ScreenSwitchState(det') = ScreenSwitchState(det) ]_vars

\* C9 amended: a frame with confidence 0 yields the all-unknown record
\* without invoking the mobile-device heuristic, the suspicious-object
\* heuristic or the voice adapter (voice_analysis stays empty); the
\* screen-switch inferencer is invoked, and of the screen-switch state it
\* leaves last_activity_time and last_face_position unchanged.
AbsentRecordC9 ==
  [][ AbsentCall =>
        /\ UnknownRecord(last'.result.analysis)
        /\ ~Has(last'.result.calls, "detect_mobile_devices")
        /\ ~Has(last'.result.calls, "detect_suspicious_objects")
        /\ ~Has(last'.result.calls, "analyze_voice_patterns")
        /\ last'.result.analysis.voice_analysis = EmptyDict
        /\ Has(last'.result.calls, "detect_screen_sharing")
        /\ "screen_sharing_detected" \in DOMAIN last'.result.analysis.screen_sharing
        /\ det'.last_activity_time = det.last_activity_time
        /\ det'.last_face_position = det.last_face_position ]_vars

\* C9 witness: a frame with confidence 0 inside the grace window started the
\* looking-away run of the screen-switch inferencer
AbsentRecordWitnessC9 ==
  /\ Returned
  /\ last.result.confidence = 0
  /\ last.result.analysis.face_detected
  /\ det.looking_away_frames = 1
  /\ det.no_face_frames = 1

\* C10: on a frame without stable presence the no-presence reason is given
\* exactly when time_since_last_activity > 5.0 s, screen_sharing_detected is
\* true then, and it is false at or below 5.0 s when no other reason is
\* given.
NoPresenceTriggerC10 ==
  (Returned /\ ~last.result.analysis.face_detected) =>
     LET ss == last.result.analysis.screen_sharing
         late == ss.time_since_last_activity > 50
     IN /\ Has(ss.switching_reason, ReasonNoFace) <=> late
        /\ late => ss.screen_sharing_detected
        /\ (~late /\ \A i \in DOMAIN ss.switching_reason :
                        ss.switching_reason[i] = ReasonNoFace)
             => ~ss.screen_sharing_detected

\* C10 witness: no face and 5.1 s since the last activity
NoPresenceTriggerWitnessC10 ==
  /\ Returned
  /\ last.result.confidence = 0
  /\ ~last.result.analysis.face_detected
  /\ last.result.analysis.screen_sharing.time_since_last_activity = 51
  /\ last.result.analysis.screen_sharing.screen_sharing_detected

\* C11: when the head-pose label of the records changes from one label to
\* another and the new label then stays for more than 2.0 s of frames, the
\* record of the frame that ends those 2.0 s has screen_sharing_detected
\* true with the sustained-head-pose-change reason.
HeadPoseChangeC11 ==
  ( /\ Returned
    /\ track.prev_pose \in PoseLabels
    /\ track.pose \in PoseLabels
    /\ track.at - track.pose_since > HeadPoseChangeSeconds )
    => /\ last.result.analysis.screen_sharing.screen_sharing_detected
       /\ Has(last.result.analysis.screen_sharing.switching_reason, ReasonHeadPose)

\* the reasons of the last record
Reasons == last.result.analysis.screen_sharing.switching_reason

\* C12 as stated: the sustained-looking-away reason is given on a frame
\* exactly when the frame ends a run of more than 30 consecutive frames on
\* which the head-pose analysis reports a pose that is not looking at the
\* screen.
LookingAwayRunC12 ==
  Returned => (Has(Reasons, ReasonLookingAway) <=> track.away_run > 30)

\* C12 amended: the sustained-looking-away reason is given on a frame
\* exactly when the frame ends a run of more than 30 consecutive frames that
\* have stable presence and whose head pose reports not looking at the
\* screen; screen_sharing_detected is true then.
LookingAwayPresentRunC12 ==
  Returned =>
    /\ Has(Reasons, ReasonLookingAway) <=> track.present_away_run > 30
    /\ Has(Reasons, ReasonLookingAway)
          => last.result.analysis.screen_sharing.screen_sharing_detected

\* C12 witness: the 31st frame of such a run carries the reason
LookingAwayRunWitnessC12 ==
  /\ Returned
  /\ track.present_away_run = 31
  /\ last.result.confidence > 0
  /\ Has(Reasons, ReasonLookingAway)

\* C13: the sustained-eye-movement reason is given on a frame exactly when
\* the frame ends a run of more than 20 consecutive frames that have stable
\* presence and whose eye tracking reports looking_away;
\* screen_sharing_detected is true then.
EyesAwayRunC13 ==
  Returned =>
    /\ Has(Reasons, ReasonEyesAway) <=> track.eyes_away_run > 20
    /\ Has(Reasons, ReasonEyesAway)
          => last.result.analysis.screen_sharing.screen_sharing_detected

\* C13 witness: the 21st frame of such a run carries the reason
EyesAwayRunWitnessC13 ==
  /\ Returned
  /\ track.eyes_away_run = 21
  /\ Has(Reasons, ReasonEyesAway)

\* C14: on a frame with stable presence and landmarks whose face centre lies
\* more than 2 x face_movement_threshold = 100 pixels from the centre on the
\* previous such frame, screen_sharing_detected is true and the reasons
\* include the sudden-large-movement reason.
LargeMovementC14 ==
  [][ ( /\ last'.called /\ ~last'.result.raised
        /\ last'.result.analysis.face_detected
        /\ last'.frame.primary = "faces" /\ last'.frame.mesh = "full"
        /\ det.last_face_position # <<None, None>>
        /\ DistSq(Pixel(last'.frame.center), Pixel(det.last_face_position))
              > (2 * face_movement_threshold) * (2 * face_movement_threshold) )
      => /\ last'.result.analysis.screen_sharing.screen_sharing_detected
         /\ Has(last'.result.analysis.screen_sharing.switching_reason,
                ReasonMovement) ]_vars

\* the sudden-large-movement reason is in the last record
MovementReasonGiven == Returned /\ Has(Reasons, ReasonMovement)

\* the sustained-head-pose-change reason is in the last record
HeadPoseReasonGiven == Returned /\ Has(Reasons, ReasonHeadPose)

\* the step is the first call of process_frame on the detector as constructed
FirstCall == ~last.called /\ last'.called /\ det = NewDetector(T0)

\* C15: the first frame of a session, on fresh state, with confidence 0.9,
\* looking at the screen, eyes open and on the screen, one face, no devices
\* or objects, voice confidence 0.8 and nervousness 0.1, yields a record with
\* attention_score 1.0, engagement_level high and no suspicious behavior.
AttentiveScenarioC15 ==
  [][ (FirstCall /\ last'.frame = AttentiveFrame /\ voice = CalmVoice)
      => /\ ~last'.result.raised
         /\ last'.result.analysis.attention_score = 100
         /\ last'.result.analysis.engagement_level = "high"
         /\ last'.result.analysis.suspicious_behavior = <<>> ]_vars

\* C17: the record of a frame processed on fresh state equals the record of
\* the same frame processed, with the same voice snapshot, on state that is
\* made fresh again, in every field.
DeterminismC17 ==
  [][ (FirstCall /\ ~last'.result.raised)
      => last'.result.analysis
           = ProcessFrame(NewDetector(now'), last'.frame, voice', now').analysis ]_vars

\* 1.0 or 0.0, in hundredths
Bracket(b) == IF b THEN 100 ELSE 0

\* high iff attention > 0.8 and confidence > 0.7, otherwise medium iff
\* attention > 0.5 and confidence > 0.5, otherwise low
LevelOf(attention, confidence, level) ==
  /\ level = "high" <=> (attention > 80 /\ confidence > 70)
  /\ level = "medium" <=> ( /\ ~(attention > 80 /\ confidence > 70)
                            /\ attention > 50 /\ confidence > 50 )
  /\ level \in {"high", "medium", "low"}

\* C16: in every record with confidence > 0, attention_score is
\* 0.4*[looking_at_screen] + 0.3*[eye_state = open]
\* + 0.3*[eye_tracking = looking_at_screen] and engagement_level follows the
\* two thresholds; the classification gives high for 0.85/0.75, medium for
\* 0.6/0.55 and low for 0.2/0.9.
FusionC16 ==
  /\ (Returned /\ last.result.confidence > 0) =>
        LET a == last.result.analysis
        IN /\ 100 * a.attention_score
                = 40 * Bracket(a.head_pose.looking_at_screen)
                  + 30 * Bracket(a.eye_tracking.eye_state = "open")
                  + 30 * Bracket(a.eye_tracking.eye_tracking = "looking_at_screen")
           /\ a.confidence = last.result.confidence
           /\ LevelOf(a.attention_score, a.confidence, a.engagement_level)
  /\ probe.applied =>
        /\ LevelOf(probe.attention_score, probe.confidence, probe.engagement_level)
        /\ (probe.attention_score = 85 /\ probe.confidence = 75)
              => probe.engagement_level = "high"
        /\ (probe.attention_score = 60 /\ probe.confidence = 55)
              => probe.engagement_level = "medium"
        /\ (probe.attention_score = 20 /\ probe.confidence = 90)
              => probe.engagement_level = "low"

\* C16 witness: a record with attention 1.0 at confidence exactly 0.7 is
\* medium, and the classification of 0.85/0.75 is high
FusionWitnessC16 ==
  /\ Returned
  /\ last.result.analysis.attention_score = 100
  /\ last.result.analysis.confidence = 70
  /\ last.result.analysis.engagement_level = "medium"
  /\ probe.applied
  /\ probe.attention_score = 85 /\ probe.confidence = 75
  /\ probe.engagement_level = "high"

RECURSIVE Count(_)
Count(bs) == IF bs = <<>> THEN 0 ELSE (IF Head(bs) THEN 1 ELSE 0) + Count(Tail(bs))

\* the conditions of the eleven rules, read from a record with confidence > 0
RuleFires(a) ==
  << ~a.head_pose.looking_at_screen,
     a.head_pose.head_pose \in {"left", "right", "up", "down"},
     a.eye_tracking.eye_state = "closed",
     a.eye_tracking.eye_tracking = "looking_away",
     a.multiple_faces.multiple_faces_detected,
     a.screen_sharing.screen_sharing_detected,
     a.mobile_devices.mobile_devices_detected,
     a.suspicious_objects.suspicious_objects_detected,
     a.voice_analysis.nervousness > 70,
     a.voice_analysis.confidence < 30,
     a.engagement_level = "low" >>

\* a rule's two strings are in the lists exactly when the rule fires
Paired(a, fires, rec, sus) ==
  /\ Has(a.recommendations, rec) <=> fires
  /\ Has(a.suspicious_behavior, sus) <=> fires

\* C18: in every record recommendations and suspicious_behavior have the
\* same length; with confidence > 0 that length is the number of rules that
\* fire, and a rule's recommendation and its suspicious-behavior string are
\* in the lists exactly when the rule fires; with confidence 0 both lists
\* are empty.
PairedListsC18 ==
  Returned =>
    LET a == last.result.analysis
    IN /\ Len(a.recommendations) = Len(a.suspicious_behavior)
       /\ IF last.result.confidence > 0
            THEN LET c == RuleFires(a)
                 IN /\ Len(a.recommendations) = Count(c)
                    /\ Paired(a, c[1], "Please look directly at the camera",
                              "User not looking at screen")
                    /\ Paired(a, c[3], "Keep your eyes open and focused",
                              "Eyes closed - may indicate inattention")
                    /\ Paired(a, c[4], "Please look at the camera",
                              "Eyes not focused on screen")
                    /\ Paired(a, c[5], "Only one person should be visible in the camera",
                              "Multiple faces detected (3 people)")
                    /\ Paired(a, c[6], "Please stay focused on the interview - avoid switching tabs or applications",
                              "Potential tab/application switching detected")
                    /\ Paired(a, c[7], "Please remove mobile devices from camera view",
                              "Mobile device detected ("
                                \o Str(a.mobile_devices.device_count) \o " devices)")
                    /\ Paired(a, c[8], "Please remove any papers, notes, or reference materials",
                              "Suspicious objects detected (1 objects)")
                    /\ Paired(a, c[9], "Try to speak more confidently and clearly",
                              "High nervousness detected in voice")
                    /\ Paired(a, c[10], "Speak with more confidence and clarity",
                              "Low confidence detected in voice")
                    /\ Paired(a, c[11], "Please maintain focus and engagement",
                              "Low engagement detected")
            ELSE a.recommendations = <<>>

\* C18 witness: a record in which seven rules fired, the screen-switch rule
\* and both voice rules among them
PairedListsWitnessC18 ==
  /\ Returned
  /\ Len(last.result.analysis.recommendations) = 7
  /\ Has(last.result.analysis.suspicious_behavior,
         "Potential tab/application switching detected")
  /\ Has(last.result.analysis.suspicious_behavior, "High nervousness detected in voice")
  /\ Has(last.result.analysis.suspicious_behavior, "Low confidence detected in voice")

\* vertical eyelid separation over horizontal eye width of an eye contour in
\* pixels, in thousandths
LidRatio(pts) ==
  (1000 * Euclidean(pts[2], pts[4])) \div Euclidean(pts[1], pts[3])

\* C19: on a full landmark set with eyes of nonzero width, eye_state follows
\* the average over the two eyes of vertical eyelid separation over
\* horizontal eye width: closed below 0.20, blinking from 0.20 to below 0.25,
\* open from 0.25 on.
EyeAspectRatioC19 ==
  ( /\ Returned /\ last.result.confidence > 0
    /\ last.frame.mesh = "full"
    /\ last.frame.left_points[1] # last.frame.left_points[3]
    /\ last.frame.right_points[1] # last.frame.right_points[3] )
    => LET ratio == ( LidRatio(Pixels(last.frame.left_points))
                      + LidRatio(Pixels(last.frame.right_points)) ) \div 2
           state == last.result.analysis.eye_tracking.eye_state
       IN /\ ratio < 200 => state = "closed"
          /\ (200 <= ratio /\ ratio < 250) => state = "blinking"
          /\ ratio >= 250 => state = "open"

\* C20: when the primary detector returns candidates the confidence is the
\* highest of their scores and the fallback detector is not consulted; when
\* it returns none the fallback is consulted and the confidence is 0.6 if it
\* finds a face and 0 otherwise.
DetectorAdapterC20 ==
  (last.called /\ ~last.result.raised) =>
    LET f == last.frame
        r == last.result
    IN /\ f.primary = "faces" =>
            /\ \A i \in DOMAIN f.scores : f.scores[i] <= r.confidence
            /\ \E i \in DOMAIN f.scores : f.scores[i] = r.confidence
            /\ ~Has(r.calls, "detect_faces_opencv")
       /\ f.primary = "none" =>
            /\ Has(r.calls, "detect_faces_opencv")
            /\ r.confidence = IF f.fallback = "faces" THEN 60 ELSE 0
       /\ r.analysis.confidence = r.confidence

\* C20 witness: of three candidates with scores 0.55, 0.9 and 0.75 the
\* confidence is 0.9
DetectorAdapterWitnessC20 ==
  /\ Returned
  /\ last.frame.scores = <<55, 90, 75>>
  /\ last.result.confidence = 90
  /\ last.result.analysis.confidence = 90

\* C21: an evaluation submitted with n >= 1 questions and n answers returns
\* detailed_feedback with n items and questions_evaluated = n.
FeedbackPerPairC21 ==
  ( /\ evaluation.done
    /\ evaluation.questions >= 1
    /\ evaluation.questions = evaluation.answers ) =>
    /\ Len(evaluation.result.detailed_feedback) = evaluation.questions
    /\ evaluation.result.questions_evaluated = evaluation.questions

\* C22: after a call of process_frame that returned a record exactly one of
\* with_face_frames and no_face_frames is non-zero: with_face_frames when the
\* frame's confidence is above 0, no_face_frames when it is 0, the other
\* counter being 0; both are 0 only while no call has returned a record.
PresenceCountersC22 ==
  /\ (det.with_face_frames = 0 /\ det.no_face_frames = 0) <=> hist = <<>>
  /\ ~(det.with_face_frames > 0 /\ det.no_face_frames > 0)
  /\ Returned =>
       IF last.result.confidence > 0
         THEN det.with_face_frames > 0 /\ det.no_face_frames = 0
         ELSE det.no_face_frames > 0 /\ det.with_face_frames = 0

\* C22 witness: a frame without a face after frames with a face: the
\* absence counter is 1 and the presence counter is back at 0
PresenceCountersWitnessC22 ==
  /\ Returned
  /\ Len(hist) >= 3
  /\ hist[Len(hist) - 1] > 0
  /\ hist[Len(hist) - 2] > 0
  /\ last.result.confidence = 0
  /\ det.no_face_frames = 1
  /\ det.with_face_frames = 0

\* the value of a run-length counter, 0 while the attribute does not exist
Counted(frames) == IF HasAttr(frames) THEN frames ELSE 0

\* C23: after a frame on which the head pose is looking at the screen the
\* head-pose looking-away counter is 0, and after a frame on which eye
\* tracking does not report looking_away the eye looking-away counter is 0;
\* the reason of trigger 3 or of trigger 4 is given only on a frame that ends
\* an uninterrupted run of more than 30, respectively 20, such frames.
RunLengthResetC23 ==
  Returned =>
    /\ last.result.analysis.head_pose.looking_at_screen
         => Counted(det.looking_away_frames) = 0
    /\ last.result.analysis.eye_tracking.eye_tracking # "looking_away"
         => Counted(det.eyes_away_frames) = 0
    /\ Has(Reasons, ReasonLookingAway) => track.present_away_run > LookingAwayFrames
    /\ Has(Reasons, ReasonEyesAway) => track.eyes_away_run > EyesAwayFrames
    /\ Counted(det.looking_away_frames) <= track.present_away_run
    /\ Counted(det.eyes_away_frames) <= track.eyes_away_run

\* C23 witness: the candidate looked left and then back at the screen: the
\* head-pose counter exists and is 0 again
RunLengthResetWitnessC23 ==
  /\ Returned
  /\ track.prev_pose = "left"
  /\ track.pose = "center"
  /\ last.result.analysis.face_detected
  /\ last.result.analysis.head_pose.looking_at_screen
  /\ det.looking_away_frames = 0
  /\ track.present_away_run = 0

\* C24: on every frame of a run of consecutive frames with
\* screen_sharing_detected true, screen_switch_start_time is the time of the
\* run's first frame and switch_duration is the time elapsed since that
\* frame.
SwitchDurationC24 ==
  (Returned /\ last.result.analysis.screen_sharing.screen_sharing_detected) =>
    /\ det.screen_switch_start_time = track.switch_since
    /\ last.result.analysis.screen_sharing.switch_duration = track.at - track.switch_since

\* C25: a call on a frame with a face (confidence > 0) whose landmark set is
\* missing or short returns a record: head pose and eye tracking are the
\* unknown sentinels, attention_score is 0, engagement_level is low, and the
\* multi-face, device, object, screen-switch and voice sections are filled in.
MissingLandmarksC25 ==
  ( /\ last.called
    /\ ~DetectorRaises(last.frame)
    /\ Detection(last.frame).confidence > 0
    /\ last.frame.mesh # "full" ) =>
    /\ ~last.result.raised
    /\ LET a == last.result.analysis
       IN /\ a.head_pose = HeadUnknown
          /\ a.eye_tracking = EyeUnknown
          /\ a.attention_score = 0
          /\ a.engagement_level = "low"
          /\ a.multiple_faces = DetectMultipleFaces(last.frame)
          /\ a.face_count = a.multiple_faces.face_count
          /\ a.mobile_devices = DetectMobileDevices(last.frame)
          /\ a.suspicious_objects = DetectSuspiciousObjects(last.frame)
          /\ "screen_sharing_detected" \in DOMAIN a.screen_sharing
          /\ "switch_duration" \in DOMAIN a.screen_sharing
          /\ a.voice_analysis \in { AnalyzeVoicePatterns(v) : v \in VoiceStates }

\* C25 witness: a face of score 0.9 with a short landmark set while the
\* candidate speaks
MissingLandmarksWitnessC25 ==
  /\ Returned
  /\ last.frame.mesh = "short"
  /\ last.result.confidence = 90
  /\ last.result.analysis.head_pose.head_pose = "unknown"
  /\ last.result.analysis.eye_tracking.eye_state = "unknown"
  /\ last.result.analysis.engagement_level = "low"
  /\ last.result.analysis.voice_analysis.speaking

\* C26: in the result of detect_mobile_devices no two reported items have
\* bounding-box origins closer than 50 px in both x and y, and
\* mobile_devices_detected = (device_count > 0) with device_count the number
\* of items.
DeviceDeduplicationC26 ==
  probe.applied =>
    LET m == probe.mobile
    IN /\ \A i, j \in DOMAIN m.devices :
            i # j => ~( /\ Abs(m.devices[i].bbox.x - m.devices[j].bbox.x) < 50
                        /\ Abs(m.devices[i].bbox.y - m.devices[j].bbox.y) < 50 )
       /\ m.mobile_devices_detected = (m.device_count > 0)
       /\ m.device_count = Len(m.devices)

\* C27: in every screen_sharing record screen_sharing_detected is true
\* exactly when switching_reason is not empty, and the reason of each of the
\* triggers 1, 3 and 4 is in the list exactly when that trigger holds on the
\* frame, whatever the other triggers do.
ReasonsAccumulateC27 ==
  Returned =>
    LET a == last.result.analysis
        held1 == /\ a.screen_sharing.time_since_last_activity > NoFaceSeconds
                 /\ ~a.face_detected
        held3 == /\ ~a.head_pose.looking_at_screen /\ a.face_detected
                 /\ track.present_away_run > LookingAwayFrames
        held4 == /\ a.eye_tracking.eye_tracking = "looking_away" /\ a.face_detected
                 /\ track.eyes_away_run > EyesAwayFrames
    IN /\ a.screen_sharing.screen_sharing_detected <=> Reasons # <<>>
       /\ Has(Reasons, ReasonNoFace) <=> held1
       /\ Has(Reasons, ReasonLookingAway) <=> held3
       /\ Has(Reasons, ReasonEyesAway) <=> held4
       /\ Len(Reasons) = Count(<<held1, held3, held4>>)

\* C27 witness: head and eyes turned away for more than 30 frames: the
\* reasons of triggers 3 and 4 are both given
ReasonsAccumulateWitnessC27 ==
  /\ Returned
  /\ Reasons = <<ReasonLookingAway, ReasonEyesAway>>
  /\ last.result.analysis.screen_sharing.screen_sharing_detected

\* C28: screen_switch_start_time is None exactly when screen_switch_detected
\* is false; after a call the stored screen_switch_detected equals the
\* returned screen_sharing_detected, and switch_duration is 0 when
\* screen_sharing_detected is false.
SwitchStateC28 ==
  /\ (det.screen_switch_start_time = None) <=> ~det.screen_switch_detected
  /\ Returned =>
       LET ss == last.result.analysis.screen_sharing
       IN /\ det.screen_switch_detected = ss.screen_sharing_detected
          /\ ~ss.screen_sharing_detected => ss.switch_duration = 0
          /\ ss.screen_sharing_detected =>
               ss.switch_duration = track.at - det.screen_switch_start_time

\* C28 witness: the second or a later frame of a detected switch: the flag
\* is stored, the start time is kept and the duration is positive
SwitchStateWitnessC28 ==
  /\ Returned
  /\ last.result.analysis.screen_sharing.screen_sharing_detected
  /\ det.screen_switch_detected
  /\ det.screen_switch_start_time # None
  /\ det.screen_switch_start_time < track.at
  /\ last.result.analysis.screen_sharing.switch_duration > 0

\* C29: a call on a frame with confidence 0 while the stable presence flag
\* is still true advances the head-pose looking-away counter by one, leaves
\* the eye looking-away counter at 0 and does not give the reason of
\* trigger 4.
GraceWindowC29 ==
  [][ ( /\ det' # det
        /\ AbsentCall
        /\ last'.result.analysis.face_detected )
      => /\ det'.looking_away_frames = Counted(det.looking_away_frames) + 1
         /\ Counted(det'.eyes_away_frames) = 0
         /\ ~Has(last'.result.analysis.screen_sharing.switching_reason, ReasonEyesAway) ]_vars

\* C29 witness: a frame without a detection, inside the grace window, ends a
\* head-pose run of more than 30 frames and carries the reason of trigger 3
GraceWindowWitnessC29 ==
  /\ Returned
  /\ last.result.confidence = 0
  /\ last.result.analysis.face_detected
  /\ det.no_face_frames > 0
  /\ det.looking_away_frames > LookingAwayFrames
  /\ Has(Reasons, ReasonLookingAway)
  /\ Counted(det.eyes_away_frames) = 0

\* the sessions whose WebSocket is open
OpenSessions == { s \in Sessions : pc[s] # "closed" }

\* C30: at every moment active_connections of /status is the number of open
\* sessions, and /start-camera/{client_id} answers "Client not connected"
\* only when no open session uses that client_id.
ConnectionsC30 ==
  /\ GetFaceDetectionStatus.active_connections = Cardinality(OpenSessions)
  /\ \A c \in ClientIds :
       StartCameraForClient(c) = "Client not connected"
         => ~\E s \in OpenSessions : cid[s] = c

====
